---- MODULE Spec2Model ----
(***************************************************************************)
(* Model of the stress-test orchestrator of src/main.rs (stress_test):     *)
(* the sampling Manager, the worker pool with its bounded queues, the      *)
(* per-user state (pos, inserted behind an RwLock), the shutdown sequence  *)
(* and the final verification pass.  The API server is an external         *)
(* collaborator; it is modelled as a store of workout ids per user.        *)
(***************************************************************************)
EXTENDS Integers, Sequences, FiniteSets, TLC

(***************************************************************************)
(* Program constants                                                       *)
(***************************************************************************)
\* crossbeam_channel::bounded(8)
QueueCap == 8
\* state.pos.saturating_sub(10)
WindowBack == 10
\* .take(15)
WindowSize == 15

(***************************************************************************)
(* Bounds of the model                                                     *)
(***************************************************************************)
\* jobs the Manager may build in a run with one user and one worker
MaxJobs == 9
\* jobs the Manager may build in the other runs
MaxJobsMulti == 4
\* jobs the Manager may build in the read-only run that fills one of two queues
MaxJobsRotate == 17
\* the latest second the clock shows when a request is signed
MaxTimestamp == 11
\* requests whose rendering is recorded
MaxSigned == 2
\* bytes of the longest request, response head and response body
MaxReqLen == 2
MaxHeadLen == 2
MaxBodyLen == 2
\* would-block results one call may meet
MaxBlocks == 2
\* example workouts and threads of the insert-workouts test
MaxExamples == 3
MaxTestThreads == 2
\* enqueue attempts that may find a full queue
MaxSpin == 1
\* lengths of the two workout templates
LongTemplate == 31
ShortTemplate == 3

(***************************************************************************)
(* Plain helpers                                                           *)
(***************************************************************************)
Min(a, b) == IF a <= b THEN a ELSE b

\* usize::saturating_sub
SaturatingSub(a, b) == IF a >= b THEN a - b ELSE 0

\* Iterator::enumerate: pairs <<index, element>>, indices from 0
Enumerate(s) == [k \in 1..Len(s) |-> <<k - 1, s[k]>>]

\* Iterator::skip
Skip(s, k) == IF k >= Len(s) THEN <<>> ELSE SubSeq(s, k + 1, Len(s))

\* Iterator::take
Take(s, k) == SubSeq(s, 1, Min(k, Len(s)))

(***************************************************************************)
(* Run configurations: the command-line arguments of stress_test and the   *)
(* size of the users file.  budget bounds the number of jobs built; faulty  *)
(* and lossy say how the server and the network may misbehave.             *)
(***************************************************************************)
Configs ==
    { [n |-> 1, n_threads |-> 1, batch_size |-> 1, read_only |-> FALSE, faulty |-> FALSE, lossy |-> FALSE, budget |-> MaxJobs],
      [n |-> 1, n_threads |-> 1, batch_size |-> 1, read_only |-> TRUE,  faulty |-> FALSE, lossy |-> FALSE, budget |-> MaxJobs],
      [n |-> 1, n_threads |-> 2, batch_size |-> 1, read_only |-> FALSE, faulty |-> FALSE, lossy |-> FALSE, budget |-> MaxJobsMulti],
      [n |-> 1, n_threads |-> 2, batch_size |-> 1, read_only |-> TRUE,  faulty |-> FALSE, lossy |-> FALSE, budget |-> MaxJobsMulti],
      [n |-> 2, n_threads |-> 2, batch_size |-> 2, read_only |-> FALSE, faulty |-> FALSE, lossy |-> FALSE, budget |-> MaxJobsMulti],
      [n |-> 2, n_threads |-> 2, batch_size |-> 2, read_only |-> TRUE,  faulty |-> FALSE, lossy |-> FALSE, budget |-> MaxJobsMulti],
      [n |-> 2, n_threads |-> 1, batch_size |-> 3, read_only |-> FALSE, faulty |-> FALSE, lossy |-> FALSE, budget |-> MaxJobsMulti],
      [n |-> 1, n_threads |-> 2, batch_size |-> 1, read_only |-> FALSE, faulty |-> TRUE,  lossy |-> FALSE, budget |-> MaxJobsMulti],
      [n |-> 1, n_threads |-> 2, batch_size |-> 1, read_only |-> TRUE,  faulty |-> TRUE,  lossy |-> FALSE, budget |-> MaxJobsMulti],
      [n |-> 2, n_threads |-> 1, batch_size |-> 2, read_only |-> FALSE, faulty |-> FALSE, lossy |-> TRUE,  budget |-> MaxJobsMulti],
      [n |-> 1, n_threads |-> 1, batch_size |-> 1, read_only |-> TRUE,  faulty |-> FALSE, lossy |-> TRUE,  budget |-> MaxJobsMulti],
      [n |-> 1, n_threads |-> 2, batch_size |-> 1, read_only |-> TRUE,  faulty |-> FALSE, lossy |-> FALSE, budget |-> MaxJobsRotate] }

VARIABLES
    cfg,                \* the configuration of the run (never changes)
    pos,                \* UserState.pos, per user
    inserted,           \* UserState.inserted (the HashSet behind the RwLock)
    lock,               \* holder of the write side of each user's RwLock (NoWorker: free)
    poisoned,           \* whether each user's RwLock is poisoned
    queues,             \* the bounded channel of each worker
    wpc,                \* position of each worker thread
    wjob,               \* the job a worker is executing
    wresp,              \* the value api_request returned to the worker
    wdelta,             \* n_after - n_before of the worker's Write job
    wcause,             \* why a worker thread panicked ("none": it did not)
    server,             \* workout ids stored by the API server, per user
    term,               \* the termination flag set by the signal handler
    mpc,                \* position of the Manager (main thread)
    batch,              \* the sampled indices of the current batch
    bi,                 \* how many entries of batch have been handled
    job,                \* the job being dispatched (NoJob: none)
    next_thread,        \* the rotating index
    n_pending_inserts,  \* the pending-insert counter
    n_inserted,         \* the confirmed-insert counter (AtomicUsize)
    exit_i,             \* workers that were sent Exit / joined so far
    vpc,                \* final verification: position of each user's closure
    vresp,              \* final verification: resp_wids of each user's closure
    failed_verifications,
    built,              \* history: every job built, in order, and the flag at that time
    accepted,           \* history: accepted[id] = worker whose queue took job id
    executed,           \* history: <<id, worker>> of every job executed to its end
    batch_no,           \* history: number of the current batch
    signed,             \* history: requests rendered by api_request, with their inputs
    tr,                 \* one call of api_request: its connection, buffers and result
    it                  \* the insert-workouts test: its threads, sets, mutexes and server

vars == <<cfg, pos, inserted, lock, poisoned, queues, wpc, wjob, wresp, wdelta, wcause,
          server, term, mpc, batch, bi, job, next_thread, n_pending_inserts,
          n_inserted, exit_i, vpc, vresp, failed_verifications,
          built, accepted, executed, batch_no, signed, tr, it>>

Users == 0..(cfg.n - 1)
Workers == 0..(cfg.n_threads - 1)
NoWorker == -1
NoJob == [kind |-> "None"]
\* api_request was not called yet
NoCall == [pc |-> "idle", conns |-> 0, req_len |-> 0, written |-> 0, head |-> 0,
           blen |-> 0, status |-> 0, nread |-> 0, last |-> "None", blocks |-> 0,
           body |-> 0]
\* insert_workouts_test was not started
NoTest == [pc |-> "start", n_threads |-> 0, workouts |-> <<>>, thread_jobs |-> <<>>,
           tpc |-> <<>>, cur |-> <<>>, local_copy |-> <<>>, resp |-> <<>>,
           holder |-> <<>>, poisoned |-> <<>>, uid_wid |-> <<>>, srv |-> <<>>,
           sent |-> <<>>]
NoResp == [ok |-> FALSE, status |-> 0, json |-> FALSE, wids |-> {}]

(***************************************************************************)
(* Static data built at startup                                            *)
(***************************************************************************)
\* Uuid::nil()
NilUuid == 0

\* the user ids loaded from the users file
UserId(u) == 1000 + u

\* workout_templates: one start-time-sorted Vec<Workout> per email
TemplateLens == <<LongTemplate, ShortTemplate>>
workout_templates ==
    [t \in 1..Len(TemplateLens) |->
        [k \in 1..TemplateLens[t] |->
            [user_id |-> NilUuid, workout_id |-> NilUuid, start_time |-> 100 * t + k]]]

\* UserState.workouts = workout_templates[i % workout_templates.len()]
Workouts(u) == workout_templates[(u % Len(workout_templates)) + 1]

\* UserState.workout_ids: one fresh Uuid per template entry (0-based index i)
WorkoutIds(u) == [k \in 1..Len(Workouts(u)) |-> (u + 1) * 100 + (k - 1)]

\* the private keys loaded from the users file
PrivKey(u) == 2000 + u

(***************************************************************************)
(* Pure parts of the Manager's job construction                            *)
(***************************************************************************)
\* a sampler that draws with replacement
ChooseWithReplacement(ix, amount) == [1..Min(amount, Cardinality(ix)) -> ix]

\* ix.choose_multiple_weighted(rng, batch_size, weight): batch_size distinct
\* elements of ix (all of them when there are fewer), in any order
ChooseMultipleWeighted(ix, amount) ==
    LET m == Min(amount, Cardinality(ix))
    IN  {s \in [1..m -> ix] : \A a, b \in 1..m : a # b => s[a] # s[b]}

\* a window that takes 10 entries more
WindowEntriesWide(u, p) ==
    Take(Skip(Enumerate(Workouts(u)), SaturatingSub(p, WindowBack)), WindowSize + WindowBack)

\* state.workouts.iter().enumerate().skip(pos.saturating_sub(10)).take(15)
WindowEntries(u, p) ==
    Take(Skip(Enumerate(Workouts(u)), SaturatingSub(p, WindowBack)), WindowSize)

\* a payload that numbers the entries after skip and take, not before
WritePayloadLocalIndex(u, p) ==
    LET e == WindowEntries(u, p)
    IN  [k \in 1..Len(e) |->
            [e[k][2] EXCEPT !.user_id = UserId(u), !.workout_id = WorkoutIds(u)[k]]]

\* .map(|(i, w)| { w.user_id = state.user_id; w.workout_id = state.workout_ids[i]; w })
WritePayload(u, p) ==
    LET e == WindowEntries(u, p)
    IN  [k \in 1..Len(e) |->
            [e[k][2] EXCEPT !.user_id = UserId(u),
                            !.workout_id = WorkoutIds(u)[e[k][1] + 1]]]

\* a count of the ids that are in the set
NNewInverted(workouts, ins) ==
    Cardinality({k \in 1..Len(workouts) : workouts[k].workout_id \in ins})

\* workouts.iter().filter(|x| ! read_lock.contains(&x.workout_id)).count()
NNew(workouts, ins) ==
    Cardinality({k \in 1..Len(workouts) : workouts[k].workout_id \notin ins})

\* the workout ids a job carries
JobWids(j) == {j.workouts[k].workout_id : k \in 1..Len(j.workouts)}

\* a write decision that does not look at the position
IsWritePastEnd(u, draw) == ~cfg.read_only /\ draw

\* a write decision that ignores the read-only flag
IsWriteAnyMode(u, draw) == pos[u] < Len(Workouts(u)) /\ draw

\* is_write = ! read_only && state.pos < state.workouts.len() && uniform.sample(rng) > 0.80
IsWrite(u, draw) == ~cfg.read_only /\ pos[u] < Len(Workouts(u)) /\ draw

\* an update that records only the first submitted id
ExtendInsertedFirst(ins, j) == ins \cup {j.workouts[1].workout_id}

\* write_lock.extend(req.items.iter().map(|x| x.workout_id))
ExtendInserted(ins, j) == ins \cup JobWids(j)

\* write_lock.symmetric_difference(&resp_wids).count()
SymmetricDifferenceCount(a, b) == Cardinality((a \ b) \cup (b \ a))

(***************************************************************************)
(* Initial state: after the worker threads are spawned, before the loop    *)
(***************************************************************************)
Init ==
    /\ cfg \in Configs
    /\ pos = [u \in Users |-> 0]
    /\ inserted = [u \in Users |-> {}]
    /\ lock = [u \in Users |-> NoWorker]
    /\ poisoned = [u \in Users |-> FALSE]
    /\ queues = [w \in Workers |-> <<>>]
    /\ wpc = [w \in Workers |-> "recv"]
    /\ wjob = [w \in Workers |-> NoJob]
    /\ wresp = [w \in Workers |-> NoResp]
    /\ wdelta = [w \in Workers |-> 0]
    /\ wcause = [w \in Workers |-> "none"]
    /\ server = [u \in Users |-> {}]
    /\ term = FALSE
    /\ mpc = "sample"
    /\ batch = <<>>
    /\ bi = 0
    /\ job = NoJob
    /\ next_thread = 0
    /\ n_pending_inserts = 0
    /\ n_inserted = 0
    /\ exit_i = 0
    /\ vpc = [u \in Users |-> "idle"]
    /\ vresp = [u \in Users |-> {}]
    /\ failed_verifications = {}
    /\ built = <<>>
    /\ accepted = [i \in 1..cfg.budget |-> <<>>]
    /\ executed = [i \in 1..cfg.budget |-> <<>>]
    /\ batch_no = 0
    /\ signed = <<>>
    /\ tr = NoCall
    /\ it = NoTest

workerVars == <<wpc, wjob, wresp, wdelta, wcause>>
verifyVars == <<vpc, vresp, failed_verifications>>
userVars == <<pos, inserted, lock, poisoned>>

\* the process is alive: the main thread neither returned nor panicked
Running == mpc \notin {"done", "panicked"}

\* a lock that never makes anyone wait
LockFreeUnchecked(u) == TRUE

\* RwLock: write() and read() return only while no writer holds the lock
LockFree(u) == lock[u] = NoWorker

\* the receiving side of worker w's channel was dropped
Disconnected(w) == wpc[w] \in {"exited", "panicked"}

(***************************************************************************)
(* The Manager (main thread)                                               *)
(***************************************************************************)
\* top of the loop: draw the batch
Sample ==
    /\ mpc = "sample"
    /\ batch' \in ChooseMultipleWeighted(Users, cfg.batch_size)
    /\ bi' = 0
    /\ batch_no' = batch_no + 1
    /\ mpc' = IF Len(batch') = 0 THEN "check" ELSE "build"
    /\ UNCHANGED <<cfg, signed, tr, it, userVars, queues, workerVars, server, term, job, next_thread,
                   n_pending_inserts, n_inserted, exit_i, verifyVars, built,
                   accepted, executed>>

\* an update that counts the new entries twice
AdvancePosTwice(p, n_new) == p + 2 * n_new

\* an update that assigns instead of adding
AdvancePosAssigned(p, n_new) == n_new

\* state.pos += n_new
AdvancePos(p, n_new) == p + n_new

\* the Read job of the match
ReadJob(u, id) ==
    [kind |-> "Read", user_id |-> UserId(u), key |-> PrivKey(u), user |-> u,
     workouts |-> <<>>, id |-> id]

\* the Write job of the match
WriteJob(u, p, id) ==
    [kind |-> "Write", user_id |-> UserId(u), key |-> PrivKey(u), user |-> u,
     workouts |-> WritePayload(u, p), id |-> id]

\* a Manager that enters the ids of the job it builds
UnderReadLockOptimistic(ins, j) == ins \cup JobWids(j)

\* let read_lock = state.inserted.read().unwrap(): the guard only reads the set
UnderReadLock(ins, j) == ins

\* template indices of the entries of a write built at p
WindowIdx(u, p) == {WindowEntries(u, p)[k][1] : k \in 1..Len(WindowEntries(u, p))}

\* body of the for loop up to the dispatch: build the job of the next sampled user
Build ==
    /\ mpc = "build"
    /\ LET u == batch[bi + 1]
           id == Len(built) + 1
       IN \E draw \in BOOLEAN :
            IF IsWrite(u, draw)
            THEN \* state.inserted.read() waits for a writer and fails on poison
                 /\ LockFree(u)
                 /\ IF poisoned[u]
                    THEN /\ mpc' = "panicked"
                         /\ UNCHANGED <<pos, inserted, n_pending_inserts, job, built>>
                    ELSE LET j == WriteJob(u, pos[u], id)
                             n_new == NNew(j.workouts, inserted[u])
                         IN /\ inserted' = [inserted EXCEPT ![u] = UnderReadLock(@, j)]
                            /\ pos' = [pos EXCEPT ![u] = AdvancePos(@, n_new)]
                            /\ n_pending_inserts' = n_pending_inserts + n_new
                            /\ job' = j
                            /\ built' = Append(built,
                                   [kind |-> "Write", user |-> u, p |-> pos[u],
                                    idx |-> WindowIdx(u, pos[u]), n_new |-> n_new,
                                    batch_no |-> batch_no, term |-> term])
                            /\ mpc' = "send"
            ELSE /\ job' = ReadJob(u, id)
                 /\ built' = Append(built,
                        [kind |-> "Read", user |-> u, p |-> pos[u], idx |-> {},
                         n_new |-> 0, batch_no |-> batch_no, term |-> term])
                 /\ mpc' = "send"
                 /\ UNCHANGED <<pos, inserted, n_pending_inserts>>
    /\ UNCHANGED <<cfg, signed, tr, it, lock, poisoned, queues, workerVars, server, term,
                   batch, bi, next_thread, n_inserted, exit_i, verifyVars,
                   accepted, executed, batch_no>>

\* a Full arm that loses the job
OnFullDropped(j) == NoJob

\* Err(TrySendError::Full(j)) => Some(j): the job is kept for the next turn
OnFull(j) == j

\* a channel that hands out the newest job first
SendInFront(q, j) == <<j>> \o q

\* crossbeam_channel::bounded: tx.try_send(job) / tx.send(job) put the job
\* behind the ones that wait
Send(q, j) == Append(q, j)

\* a rotation that starts one worker late
TargetShifted(nt) == (nt + 1) % cfg.n_threads

\* txs[next_thread % n_threads]
Target(nt) == nt % cfg.n_threads

\* a for loop that looks at the flag after every job
AfterDispatchPreemptive(k, len) == IF k < len /\ ~term THEN "build" ELSE "check"

\* the for loop over the batch goes on to the next sampled user; the flag is
\* read only after the last one
AfterDispatch(k, len) == IF k < len THEN "build" ELSE "check"

\* one turn of `while job.is_some()`: txs[next_thread % n_threads].try_send(job)
TrySend ==
    /\ mpc = "send"
    /\ LET w == Target(next_thread)
           ok == Len(queues[w]) < QueueCap
           left == IF ok THEN NoJob ELSE OnFull(job)
       IN IF Disconnected(w)
          THEN \* TrySendError::Disconnected: panic!("thread rx disconnected")
               /\ mpc' = "panicked"
               /\ UNCHANGED <<queues, job, next_thread, bi, accepted>>
          ELSE /\ ok \/ next_thread - (Len(built) - 1) < MaxSpin
               /\ queues' = IF ok THEN [queues EXCEPT ![w] = Send(@, job)] ELSE queues
               /\ accepted' = IF ok THEN [accepted EXCEPT ![job.id] = Append(@, w)]
                              ELSE accepted
               /\ job' = left
               /\ next_thread' = next_thread + 1
               /\ IF left = NoJob
                  THEN \* the while loop ends; on to the next sampled user
                       /\ bi' = bi + 1
                       /\ mpc' = AfterDispatch(bi + 1, Len(batch))
                  ELSE UNCHANGED <<bi, mpc>>
    /\ UNCHANGED <<cfg, signed, tr, it, userVars, workerVars, server, term, batch, n_pending_inserts,
                   n_inserted, exit_i, verifyVars, built, executed, batch_no>>

\* end of the loop body: if term.load() { break }
CheckTerm ==
    /\ mpc = "check"
    /\ IF term
       THEN mpc' = "exit"
       ELSE /\ Len(built) + Min(cfg.batch_size, cfg.n) <= cfg.budget
            /\ mpc' = "sample"
    /\ exit_i' = 0
    /\ UNCHANGED <<cfg, signed, tr, it, userVars, queues, workerVars, server, term, batch, bi, job,
                   next_thread, n_pending_inserts, n_inserted, verifyVars, built,
                   accepted, executed, batch_no>>

\* for tx in txs.iter() { tx.send(StressTestJob::Exit).unwrap() }
ExitJob == [kind |-> "Exit", user_id |-> NilUuid, key |-> 0, user |-> 0,
            workouts |-> <<>>, id |-> 0]

SendExit ==
    /\ mpc = "exit"
    /\ LET w == exit_i
       IN IF Disconnected(w)
          THEN /\ mpc' = "panicked"
               /\ UNCHANGED <<queues, exit_i>>
          ELSE \* a blocking send: waits while the queue is full
               /\ Len(queues[w]) < QueueCap
               /\ queues' = [queues EXCEPT ![w] = Send(@, ExitJob)]
               /\ IF exit_i + 1 < cfg.n_threads
                  THEN exit_i' = exit_i + 1 /\ mpc' = "exit"
                  ELSE exit_i' = 0 /\ mpc' = "join"
    /\ UNCHANGED <<cfg, signed, tr, it, userVars, workerVars, server, term, batch, bi, job, next_thread,
                   n_pending_inserts, n_inserted, verifyVars, built, accepted,
                   executed, batch_no>>

\* a join whose result is dropped
JoinFailedIgnored(w) == FALSE

\* join() returns Err when the thread panicked, and unwrap() panics on it
JoinFailed(w) == wpc[w] = "panicked"

\* a pass that checks every user
VerifyFilterAll(u) == TRUE

\* user_states.par_iter().filter(|x| x.pos > 0)
VerifyFilter(u) == pos[u] > 0

\* for join_handle in threads { join_handle.join().unwrap() }
Join ==
    /\ mpc = "join"
    /\ LET w == exit_i
       IN /\ Disconnected(w)
          /\ IF JoinFailed(w)
             THEN /\ mpc' = "panicked"
                  /\ UNCHANGED <<exit_i, vpc>>
             ELSE IF exit_i + 1 < cfg.n_threads
             THEN /\ exit_i' = exit_i + 1
                  /\ UNCHANGED <<mpc, vpc>>
             ELSE /\ exit_i' = 0
                  /\ IF cfg.read_only
                     THEN mpc' = "done" /\ UNCHANGED vpc
                     ELSE /\ mpc' = "verify"
                          /\ vpc' = [u \in Users |->
                                    IF VerifyFilter(u) THEN "request" ELSE "skip"]
    /\ UNCHANGED <<cfg, signed, tr, it, userVars, queues, workerVars, server, term, batch, bi, job,
                   next_thread, n_pending_inserts, n_inserted, vresp,
                   failed_verifications, built, accepted, executed, batch_no>>

(***************************************************************************)
(* The API server (external): it stores the workout ids of the writes it   *)
(* accepted, idempotently per id, and lists all of them.  A faulty server  *)
(* or network may answer with any status or break the connection; a lossy  *)
(* server may list nothing, or an id that nobody sent.                     *)
(***************************************************************************)
\* POST /api/v1/workouts/new
ServerNew(srv, j) == [srv EXCEPT ![j.user] = @ \cup JobWids(j)]

\* POST /api/v1/workouts/list
ServerList(srv, u) == srv[u]

\* what comes back for a new request: transport (the bytes arrived), status,
\* and whether the server stored the items
NewResponses ==
    {[transport |-> TRUE, status |-> 204, json |-> FALSE, wids |-> {}, stored |-> TRUE]}
    \cup (IF cfg.faulty
          THEN {[transport |-> TRUE, status |-> 200, json |-> FALSE, wids |-> {}, stored |-> TRUE],
                [transport |-> TRUE, status |-> 500, json |-> FALSE, wids |-> {}, stored |-> FALSE],
                [transport |-> FALSE, status |-> 0, json |-> FALSE, wids |-> {}, stored |-> FALSE],
                [transport |-> FALSE, status |-> 0, json |-> FALSE, wids |-> {}, stored |-> TRUE]}
          ELSE {})

\* what comes back for a list request of user u: with status 200 a JSON body
\* that lists workout ids, otherwise a body that is no list
ListResponses(u) ==
    {[transport |-> TRUE, status |-> 200, json |-> TRUE, wids |-> ServerList(server, u),
      stored |-> FALSE]}
    \cup (IF cfg.lossy
          THEN {[transport |-> TRUE, status |-> 200, json |-> TRUE, wids |-> {}, stored |-> FALSE],
                [transport |-> TRUE, status |-> 200, json |-> TRUE, wids |-> {NilUuid},
                 stored |-> FALSE]}
          ELSE {})
    \cup (IF cfg.faulty
          THEN {[transport |-> TRUE, status |-> 204, json |-> FALSE, wids |-> {}, stored |-> FALSE],
                [transport |-> TRUE, status |-> 500, json |-> FALSE, wids |-> {}, stored |-> FALSE],
                [transport |-> FALSE, status |-> 0, json |-> FALSE, wids |-> {}, stored |-> FALSE]}
          ELSE {})

(***************************************************************************)
(* api_request: the transport client                                       *)
(***************************************************************************)
\* if ! (resp.status == 200 || resp.status == 204) { ...; return None }
StatusAccepted(path, status) == status = 200 \/ status = 204

\* the Option api_request returns for the response r to a request to path:
\* None on an I/O error or a status that is not accepted, else Some(body)
ApiRequest(path, r) ==
    IF r.transport /\ StatusAccepted(path, r.status)
    THEN [ok |-> TRUE, status |-> r.status, json |-> r.json, wids |-> r.wids]
    ELSE NoResp

\* Option::unwrap on the value of api_request: it returns only for Some
UnwrapIgnored(resp) == TRUE
Unwrap(resp) == resp.ok

(***************************************************************************)
(* The worker threads                                                      *)
(***************************************************************************)
\* the thread unwinds from a panic: a held write guard is dropped, which
\* poisons the lock
Panic(w, cause) ==
    /\ wpc' = [wpc EXCEPT ![w] = "panicked"]
    /\ wcause' = [wcause EXCEPT ![w] = cause]
    /\ lock' = [u \in Users |-> IF lock[u] = w THEN NoWorker ELSE lock[u]]
    /\ poisoned' = [u \in Users |-> poisoned[u] \/ lock[u] = w]

\* the job ran to the end of its match arm
Finish(w) ==
    /\ executed' = [executed EXCEPT ![wjob[w].id] = Append(@, w)]
    /\ wjob' = [wjob EXCEPT ![w] = NoJob]

\* an Exit arm that goes on with the loop
ExitArmContinues == "recv"

\* Ok(StressTestJob::Exit) => break: the thread returns
ExitArm == "exited"

\* a Read arm that sends the request before it takes the lock
ReadArmUnlocked(read_only) == IF read_only THEN "reqRO" ELSE "reqR"

\* a Read arm that validates in a read-only run too
ReadArmValidates(read_only) == "lockR"

\* Ok(StressTestJob::Read { .. }) if ! read_only: the lock first; the arm after
\* it, for a read-only run: the request at once
ReadArm(read_only) == IF read_only THEN "reqRO" ELSE "lockR"

\* match rx.recv()
Recv(w) ==
    /\ Running
    /\ wpc[w] = "recv"
    /\ queues[w] # <<>>
    /\ LET j == Head(queues[w])
       IN /\ queues' = [queues EXCEPT ![w] = Tail(@)]
          /\ IF j.kind = "Exit"
             THEN /\ wpc' = [wpc EXCEPT ![w] = ExitArm]
                  /\ UNCHANGED <<wjob, wcause, lock, poisoned>>
             ELSE IF j.kind = "Write" /\ cfg.read_only
             THEN \* assert!( ! read_only )
                  /\ Panic(w, "assert_read_only")
                  /\ UNCHANGED wjob
             ELSE /\ wjob' = [wjob EXCEPT ![w] = j]
                  /\ wpc' = [wpc EXCEPT ![w] =
                        IF j.kind = "Write" THEN "lockW"
                        ELSE ReadArm(cfg.read_only)]
                  /\ UNCHANGED <<wcause, lock, poisoned>>
    /\ UNCHANGED <<cfg, signed, tr, it, pos, inserted, wresp, wdelta, server, term, mpc, batch, bi, job,
                   next_thread, n_pending_inserts, n_inserted, exit_i, verifyVars,
                   built, accepted, executed, batch_no>>

\* inserted.write().unwrap()
AcquireWrite(w) ==
    /\ Running
    /\ wpc[w] \in {"lockR", "lockW"}
    /\ LET u == wjob[w].user
       IN /\ LockFree(u)
          /\ IF poisoned[u]
             THEN Panic(w, "poisoned")
             ELSE /\ lock' = [lock EXCEPT ![u] = w]
                  /\ wpc' = [wpc EXCEPT ![w] = IF @ = "lockR" THEN "reqR" ELSE "reqW"]
                  /\ UNCHANGED <<poisoned, wcause>>
    /\ UNCHANGED <<cfg, signed, tr, it, pos, inserted, queues, wjob, wresp, wdelta, server, term, mpc,
                   batch, bi, job, next_thread, n_pending_inserts, n_inserted, exit_i,
                   verifyVars, built, accepted, executed, batch_no>>

\* api_request(&addr, "/api/v1/workouts/list", ...).unwrap() and, when not
\* read-only, serde_json::from_slice(..).unwrap() and the collecting of resp_wids
RequestList(w) ==
    /\ Running
    /\ wpc[w] \in {"reqR", "reqRO"}
    /\ \E r \in ListResponses(wjob[w].user) :
         LET resp == ApiRequest("/api/v1/workouts/list", r)
         IN IF ~Unwrap(resp)
            THEN Panic(w, "api_request") /\ UNCHANGED wresp
            ELSE IF wpc[w] = "reqR" /\ ~resp.json
            THEN Panic(w, "parse") /\ UNCHANGED wresp
            ELSE /\ wresp' = [wresp EXCEPT ![w] = resp]
                 /\ wpc' = [wpc EXCEPT ![w] = IF @ = "reqR" THEN "cmpR" ELSE "gotRO"]
                 /\ UNCHANGED <<lock, poisoned, wcause>>
    /\ UNCHANGED <<cfg, signed, tr, it, pos, inserted, queues, wjob, wdelta, server, term, mpc, batch,
                   bi, job, next_thread, n_pending_inserts, n_inserted, exit_i,
                   verifyVars, built, accepted, executed, batch_no>>

\* assert_eq!(write_lock.symmetric_difference(&resp_wids).count(), 0, ...);
\* drop(write_lock)
CompareRead(w) ==
    /\ Running
    /\ wpc[w] = "cmpR"
    /\ LET u == wjob[w].user
       IN IF SymmetricDifferenceCount(inserted[u], wresp[w].wids) # 0
          THEN /\ Panic(w, "read_check")
               /\ UNCHANGED <<wjob, executed>>
          ELSE /\ lock' = [lock EXCEPT ![u] = NoWorker]
               /\ wpc' = [wpc EXCEPT ![w] = "recv"]
               /\ Finish(w)
               /\ UNCHANGED <<poisoned, wcause>>
    /\ wresp' = [wresp EXCEPT ![w] = NoResp]
    /\ UNCHANGED <<cfg, signed, tr, it, pos, inserted, queues, wdelta, server, term, mpc, batch, bi,
                   job, next_thread, n_pending_inserts, n_inserted, exit_i,
                   verifyVars, built, accepted, batch_no>>

\* read-only Read arm: let _resp = api_request(...).unwrap(); the result is dropped
DiscardRead(w) ==
    /\ Running
    /\ wpc[w] = "gotRO"
    /\ wpc' = [wpc EXCEPT ![w] = "recv"]
    /\ wresp' = [wresp EXCEPT ![w] = NoResp]
    /\ Finish(w)
    /\ UNCHANGED <<cfg, signed, tr, it, userVars, queues, wdelta, wcause, server, term, mpc, batch, bi,
                   job, next_thread, n_pending_inserts, n_inserted, exit_i,
                   verifyVars, built, accepted, batch_no>>

\* api_request(&addr, "/api/v1/workouts/new", ...).unwrap()
RequestNew(w) ==
    /\ Running
    /\ wpc[w] = "reqW"
    /\ \E r \in NewResponses :
         LET resp == ApiRequest("/api/v1/workouts/new", r)
         IN /\ server' = IF r.stored THEN ServerNew(server, wjob[w]) ELSE server
            /\ IF ~Unwrap(resp)
               THEN Panic(w, "api_request") /\ UNCHANGED wresp
               ELSE /\ wresp' = [wresp EXCEPT ![w] = resp]
                    /\ wpc' = [wpc EXCEPT ![w] = "procW"]
                    /\ UNCHANGED <<lock, poisoned, wcause>>
    /\ UNCHANGED <<cfg, signed, tr, it, pos, inserted, queues, wjob, wdelta, term, mpc, batch,
                   bi, job, next_thread, n_pending_inserts, n_inserted, exit_i,
                   verifyVars, built, accepted, executed, batch_no>>

\* a guard that is never dropped
DropGuardForgotten(w) == w

\* drop(write_lock)
DropGuard(w) == NoWorker

\* a counter that is overwritten
FetchAddStore(old, delta) == delta

\* n_inserted.fetch_add(delta, Ordering::Relaxed)
FetchAddValue(old, delta) == old + delta

\* a count that takes the size of the set for the number of new ids
InsertedDeltaAfter(n_before, n_after) == n_after

\* n_after.saturating_sub(n_before)
InsertedDelta(n_before, n_after) == SaturatingSub(n_after, n_before)

\* n_before = len; write_lock.extend(...); n_after = len; drop(write_lock)
ExtendWrite(w) ==
    /\ Running
    /\ wpc[w] = "procW"
    /\ LET u == wjob[w].user
           after == ExtendInserted(inserted[u], wjob[w])
       IN /\ inserted' = [inserted EXCEPT ![u] = after]
          /\ wdelta' = [wdelta EXCEPT ![w] =
                InsertedDelta(Cardinality(inserted[u]), Cardinality(after))]
          /\ lock' = [lock EXCEPT ![u] = DropGuard(w)]
    /\ wpc' = [wpc EXCEPT ![w] = "addW"]
    /\ wresp' = [wresp EXCEPT ![w] = NoResp]
    /\ UNCHANGED <<cfg, signed, tr, it, pos, poisoned, queues, wjob, wcause, server, term, mpc,
                   batch, bi, job, next_thread, n_pending_inserts, n_inserted, exit_i,
                   verifyVars, built, accepted, executed, batch_no>>

\* n_inserted.fetch_add(n_after.saturating_sub(n_before), Ordering::Relaxed)
FetchAdd(w) ==
    /\ Running
    /\ wpc[w] = "addW"
    /\ n_inserted' = FetchAddValue(n_inserted, wdelta[w])
    /\ wdelta' = [wdelta EXCEPT ![w] = 0]
    /\ wpc' = [wpc EXCEPT ![w] = "recv"]
    /\ Finish(w)
    /\ UNCHANGED <<cfg, signed, tr, it, userVars, queues, wresp, wcause, server, term, mpc, batch, bi,
                   job, next_thread, n_pending_inserts, exit_i, verifyVars, built,
                   accepted, batch_no>>

(***************************************************************************)
(* The final verification pass (one closure per user with pos > 0)         *)
(***************************************************************************)
\* api_request(list).unwrap(), serde_json::from_slice(..).unwrap() and the
\* collecting of resp_wids; a panic in a closure is the panic of the main thread
VerifyRequest(u) ==
    /\ mpc = "verify"
    /\ vpc[u] = "request"
    /\ \E r \in ListResponses(u) :
         LET resp == ApiRequest("/api/v1/workouts/list", r)
         IN IF ~Unwrap(resp) \/ ~resp.json
            THEN /\ mpc' = "panicked"
                 /\ vpc' = [vpc EXCEPT ![u] = "failed"]
                 /\ UNCHANGED vresp
            ELSE /\ vresp' = [vresp EXCEPT ![u] = resp.wids]
                 /\ vpc' = [vpc EXCEPT ![u] = "compare"]
                 /\ UNCHANGED mpc
    /\ UNCHANGED <<cfg, signed, tr, it, userVars, queues, workerVars, server, term, batch, bi, job,
                   next_thread, n_pending_inserts, n_inserted, exit_i,
                   failed_verifications, built, accepted, executed, batch_no>>

\* expected_wids = inserted.read().unwrap(); the symmetric difference decides
VerifyCompare(u) ==
    /\ mpc = "verify"
    /\ vpc[u] = "compare"
    /\ LockFree(u)
    /\ IF poisoned[u]
       THEN mpc' = "panicked" /\ UNCHANGED <<vpc, failed_verifications>>
       ELSE /\ vpc' = [vpc EXCEPT ![u] = "done"]
            /\ failed_verifications' =
                  IF SymmetricDifferenceCount(inserted[u], vresp[u]) > 0
                  THEN failed_verifications \cup {UserId(u)}
                  ELSE failed_verifications
            /\ UNCHANGED mpc
    /\ UNCHANGED <<cfg, signed, tr, it, userVars, queues, workerVars, server, term, batch, bi, job,
                   next_thread, n_pending_inserts, n_inserted, exit_i, vresp,
                   built, accepted, executed, batch_no>>

\* if ! failed_verifications.is_empty() { panic!(...) }; "all done"
VerifyEnd ==
    /\ mpc = "verify"
    /\ \A u \in Users : vpc[u] \in {"skip", "done"}
    /\ mpc' = IF failed_verifications # {} THEN "panicked" ELSE "done"
    /\ UNCHANGED <<cfg, signed, tr, it, userVars, queues, workerVars, server, term, batch, bi, job,
                   next_thread, n_pending_inserts, n_inserted, exit_i, verifyVars,
                   built, accepted, executed, batch_no>>

(***************************************************************************)
(* The signal handler: SIGINT, SIGTERM or SIGQUIT sets the flag            *)
(***************************************************************************)
Signal ==
    /\ Running
    /\ ~term
    /\ term' = TRUE
    /\ UNCHANGED <<cfg, signed, tr, it, userVars, queues, workerVars, server, mpc, batch, bi, job,
                   next_thread, n_pending_inserts, n_inserted, exit_i, verifyVars,
                   built, accepted, executed, batch_no>>

Next ==
    \/ Sample
    \/ Build
    \/ TrySend
    \/ CheckTerm
    \/ SendExit
    \/ Join
    \/ \E u \in Users : VerifyRequest(u)
    \/ \E u \in Users : VerifyCompare(u)
    \/ VerifyEnd
    \/ Signal
    \/ \E w \in Workers : Recv(w)
    \/ \E w \in Workers : AcquireWrite(w)
    \/ \E w \in Workers : RequestList(w)
    \/ \E w \in Workers : CompareRead(w)
    \/ \E w \in Workers : DiscardRead(w)
    \/ \E w \in Workers : RequestNew(w)
    \/ \E w \in Workers : ExtendWrite(w)
    \/ \E w \in Workers : FetchAdd(w)

Spec == Init /\ [][Next]_vars

(***************************************************************************)
(* api_request: the signed request it renders                              *)
(***************************************************************************)
\* fitbod::api::ListWorkoutsRequest::from(user_id)
ListWorkoutsRequest(u) == [type |-> "list", user_id |-> UserId(u), items |-> <<>>]

\* fitbod::api::NewWorkoutsRequest { user_id, items: workouts }
NewWorkoutsRequest(u, workouts) == [type |-> "new", user_id |-> UserId(u), items |-> workouts]

\* the fields of the items, one after the other
RECURSIVE ItemsJson(_)
ItemsJson(items) ==
    IF items = <<>> THEN <<>>
    ELSE <<Head(items).user_id, Head(items).workout_id, Head(items).start_time>>
         \o ItemsJson(Tail(items))

\* serde_json::to_string(&req): the text, as the sequence of its members, each
\* a name and the numbers of its value (none for null)
ToJson(req) ==
    IF req.type = "list"
    THEN << <<"user_id", <<req.user_id>> >>, <<"start", <<>> >>, <<"end", <<>> >>,
            <<"limit", <<>> >> >>
    ELSE << <<"user_id", <<req.user_id>> >>, <<"items", ItemsJson(req.items)>> >>

\* timestamp.to_string(): the decimal digits
RECURSIVE Digits(_)
Digits(i) == IF i < 10 THEN <<i>> ELSE Append(Digits(i \div 10), i % 10)

\* Utc::now().timestamp()
Timestamps == 9..MaxTimestamp

\* fitbod::auth::sign_request(timestamp, body, key): a value that the key
\* binds to exactly this timestamp and this body
SignRequest(timestamp, body, key) == [key |-> key, msg |-> <<timestamp, body>>]

\* a request whose signature leaves the timestamp out
HttpRequestUnstamped(path, req, key, timestamp) ==
    LET req_json == ToJson(req)
    IN  [path |-> path, body |-> req_json, sig |-> SignRequest(0, req_json, key),
         timestamp |-> Digits(timestamp)]

\* the context rendered into the "api-request" template
HttpRequest(path, req, key, timestamp) ==
    LET req_json == ToJson(req)
    IN  [path |-> path, body |-> req_json, sig |-> SignRequest(timestamp, req_json, key),
         timestamp |-> Digits(timestamp)]

\* the requests made for user u: the list request and the writes built at the
\* first two positions
RequestsOf(u) ==
    {[path |-> "/api/v1/workouts/list", req |-> ListWorkoutsRequest(u)]}
    \cup {[path |-> "/api/v1/workouts/new", req |-> NewWorkoutsRequest(u, WritePayload(u, p))] :
            p \in {0, WindowSize}}

\* api_request up to the rendering, for any user, request and second
Sign ==
    /\ Len(signed) < MaxSigned
    /\ \E u \in Users, timestamp \in Timestamps :
         \E r \in RequestsOf(u) :
            signed' = Append(signed,
                [key |-> PrivKey(u),
                 request |-> HttpRequest(r.path, r.req, PrivKey(u), timestamp)])
    /\ UNCHANGED <<cfg, pos, inserted, lock, poisoned, queues, wpc, wjob, wresp, wdelta,
                   wcause, server, term, mpc, batch, bi, job, next_thread,
                   n_pending_inserts, n_inserted, exit_i, vpc, vresp,
                   failed_verifications, built, accepted, executed, batch_no, tr, it>>

SpecSign == Init /\ [][Sign]_vars

(***************************************************************************)
(* api_request: one call on the wire.  The request has req_len bytes; the  *)
(* server answers with a head of head bytes that carries the status, and a *)
(* body of blen bytes; the bytes arrive in pieces of any size.             *)
(***************************************************************************)
\* the variables of the stress test
stressVars == <<cfg, pos, inserted, lock, poisoned, queues, wpc, wjob, wresp, wdelta,
                wcause, server, term, mpc, batch, bi, job, next_thread,
                n_pending_inserts, n_inserted, exit_i, vpc, vresp,
                failed_verifications, built, accepted, executed, batch_no>>

\* the kinds of io::Error a non-blocking stream returns
ErrorKinds == {"WouldBlock", "ConnectionReset"}

\* a test that never sees a would-block
would_block_never(err) == FALSE

\* fn would_block(err: &io::Error) -> bool
would_block(err) == err = "WouldBlock"

\* thhp::Response::parse(&buf[..n_bytes_read], ..) is Complete once the whole
\* head has arrived
ParseComplete(n_bytes_read, head) == n_bytes_read >= head

\* TcpStream::connect(addr).unwrap()
ApiConnect ==
    /\ tr.pc = "idle"
    /\ \E req_len \in 1..MaxReqLen, head \in 1..MaxHeadLen, blen \in 0..MaxBodyLen,
          status \in {200, 204, 500}, connected \in BOOLEAN :
         tr' = IF connected
               THEN [tr EXCEPT !.pc = "write", !.conns = @ + 1, !.req_len = req_len,
                               !.head = head, !.blen = blen, !.status = status]
               ELSE [tr EXCEPT !.pc = "panicked"]
    /\ UNCHANGED <<stressVars, signed, it>>

\* one turn of `while n_bytes_written < http_req.len()`: stream.write(..)
ApiWrite ==
    /\ tr.pc = "write"
    /\ \/ \E n \in 1..(tr.req_len - tr.written) :
            tr' = [tr EXCEPT !.written = @ + n, !.last = "Ok",
                             !.pc = IF tr.written + n < tr.req_len THEN "write" ELSE "read"]
       \/ \E e \in ErrorKinds :
            IF would_block(e)
            THEN /\ tr.blocks < MaxBlocks
                 /\ tr' = [tr EXCEPT !.last = e, !.blocks = @ + 1]
            ELSE tr' = [tr EXCEPT !.last = e, !.pc = "none"]
    /\ UNCHANGED <<stressVars, signed, it>>

\* one turn of the read loop: stream.read(&mut buf[n_bytes_read..]), then the
\* parse of what has arrived, the status check and the return of
\* buf[body_offset..n_bytes_read]
ApiRead ==
    /\ tr.pc = "read"
    /\ \/ \E n \in 1..(tr.head + tr.blen - tr.nread) :
            LET n_bytes_read == tr.nread + n
            IN tr' = IF ~ParseComplete(n_bytes_read, tr.head)
                     THEN [tr EXCEPT !.nread = n_bytes_read, !.last = "Ok"]
                     ELSE IF ~StatusAccepted("/api/v1/workouts/list", tr.status)
                     THEN [tr EXCEPT !.nread = n_bytes_read, !.last = "Ok", !.pc = "none"]
                     ELSE [tr EXCEPT !.nread = n_bytes_read, !.last = "Ok", !.pc = "some",
                                     !.body = n_bytes_read - tr.head]
       \/ \E e \in ErrorKinds :
            IF would_block(e)
            THEN /\ tr.blocks < MaxBlocks
                 /\ tr' = [tr EXCEPT !.last = e, !.blocks = @ + 1]
            ELSE tr' = [tr EXCEPT !.last = e, !.pc = "none"]
    /\ UNCHANGED <<stressVars, signed, it>>

TransportNext == ApiConnect \/ ApiWrite \/ ApiRead

SpecTransport == Init /\ [][TransportNext]_vars

(***************************************************************************)
(* insert_workouts_test: the example workouts are shuffled and dealt to    *)
(* n_threads threads; each thread sends its workouts one by one and checks *)
(* the server's list against a local set, per user, under a mutex.  The    *)
(* server stores and lists correctly.                                      *)
(***************************************************************************)
\* the users of the example workouts
TestUsers == {0, 1}

\* load_example_workouts and the loop that gives every row a fresh workout_id
ExampleWorkouts ==
    [k \in 1..MaxExamples |-> [user |-> k % 2, workout_id |-> 500 + k]]

\* example_workouts.shuffle(&mut rng): any order of the rows
Shuffles(ws) ==
    {[k \in 1..Len(ws) |-> ws[f[k]]] :
        f \in {g \in [1..Len(ws) -> 1..Len(ws)] :
                 \A a, b \in 1..Len(ws) : a # b => g[a] # g[b]}}

\* thread_jobs[i % n_threads].push(workout), for the workouts in order
RECURSIVE Deal(_, _, _)
Deal(ws, n_threads, i) ==
    IF i = Len(ws) THEN [t \in 0..(n_threads - 1) |-> <<>>]
    ELSE LET rest == Deal(ws, n_threads, i + 1)
         IN  [rest EXCEPT ![i % n_threads] = <<ws[i + 1]>> \o @]

TestThreads == 0..(it.n_threads - 1)

\* a mutex that never makes anyone wait
MutexFreeUnchecked(u) == TRUE

\* Mutex::lock() returns only while no thread holds the mutex
MutexFree(u) == it.holder[u] = NoWorker

\* startup, up to the spawning of the threads
TestStart ==
    /\ it.pc = "start"
    /\ \E n_threads \in 1..MaxTestThreads, ws \in Shuffles(ExampleWorkouts) :
         it' = [pc |-> "run", n_threads |-> n_threads, workouts |-> ws,
                thread_jobs |-> Deal(ws, n_threads, 0),
                tpc |-> [t \in 0..(n_threads - 1) |-> "pop"],
                cur |-> [t \in 0..(n_threads - 1) |-> ws[1]],
                local_copy |-> [t \in 0..(n_threads - 1) |-> {}],
                resp |-> [t \in 0..(n_threads - 1) |-> {}],
                holder |-> [u \in TestUsers |-> NoWorker],
                poisoned |-> [u \in TestUsers |-> FALSE],
                uid_wid |-> [u \in TestUsers |-> {}],
                srv |-> [u \in TestUsers |-> {}],
                sent |-> [k \in 1..Len(ws) |-> <<>>]]
    /\ UNCHANGED <<stressVars, signed, tr>>

\* the k with it.workouts[k] = w
IndexOf(w) == CHOOSE k \in 1..Len(it.workouts) : it.workouts[k] = w

\* a test thread unwinds from a panic: a held mutex guard is dropped, which
\* poisons the mutex
TestPanic(t) ==
    [it EXCEPT !.tpc[t] = "panicked",
               !.holder = [u \in TestUsers |-> IF it.holder[u] = t THEN NoWorker
                                               ELSE it.holder[u]],
               !.poisoned = [u \in TestUsers |-> it.poisoned[u] \/ it.holder[u] = t]]

\* while let Some(workout) = jobs.pop()
TestPop(t) ==
    /\ it.pc = "run" /\ it.tpc[t] = "pop"
    /\ LET jobs == it.thread_jobs[t]
       IN it' = IF jobs = <<>>
                THEN [it EXCEPT !.tpc[t] = "done"]
                ELSE [it EXCEPT !.tpc[t] = "lock", !.cur[t] = jobs[Len(jobs)],
                                !.thread_jobs[t] = SubSeq(jobs, 1, Len(jobs) - 1)]
    /\ UNCHANGED <<stressVars, signed, tr>>

\* uid_wid[&workout.user_id].lock().unwrap()
TestLock(t) ==
    /\ it.pc = "run" /\ it.tpc[t] = "lock"
    /\ LET u == it.cur[t].user
       IN /\ MutexFree(u)
          /\ it' = IF it.poisoned[u] THEN TestPanic(t)
                   ELSE [it EXCEPT !.tpc[t] = "new", !.holder[u] = t]
    /\ UNCHANGED <<stressVars, signed, tr>>

\* api_request(&addr, "/api/v1/workouts/new", ..).unwrap()
TestNew(t) ==
    /\ it.pc = "run" /\ it.tpc[t] = "new"
    /\ LET w == it.cur[t]
       IN it' = [it EXCEPT !.tpc[t] = "insert",
                           !.srv[w.user] = @ \cup {w.workout_id},
                           !.sent[IndexOf(w)] = Append(@, t)]
    /\ UNCHANGED <<stressVars, signed, tr>>

\* assert!( write_lock.insert(workout.workout_id) ); local_copy = (&*write_lock).clone()
TestInsert(t) ==
    /\ it.pc = "run" /\ it.tpc[t] = "insert"
    /\ LET w == it.cur[t]
       IN it' = IF w.workout_id \in it.uid_wid[w.user]
                THEN TestPanic(t)
                ELSE [it EXCEPT !.tpc[t] = "list",
                                !.uid_wid[w.user] = @ \cup {w.workout_id},
                                !.local_copy[t] = it.uid_wid[w.user] \cup {w.workout_id}]
    /\ UNCHANGED <<stressVars, signed, tr>>

\* api_request(&addr, "/api/v1/workouts/list", ..).unwrap()
TestList(t) ==
    /\ it.pc = "run" /\ it.tpc[t] = "list"
    /\ it' = [it EXCEPT !.tpc[t] = "drop", !.resp[t] = it.srv[it.cur[t].user]]
    /\ UNCHANGED <<stressVars, signed, tr>>

\* drop(write_lock)
TestDrop(t) ==
    /\ it.pc = "run" /\ it.tpc[t] = "drop"
    /\ it' = [it EXCEPT !.tpc[t] = "compare",
                        !.holder[it.cur[t].user] =
                            IF @ = t THEN NoWorker ELSE @]
    /\ UNCHANGED <<stressVars, signed, tr>>

\* assert_eq!( resp_wids.symmetric_difference(&local_copy).count(), 0, .. )
TestCompare(t) ==
    /\ it.pc = "run" /\ it.tpc[t] = "compare"
    /\ it' = IF SymmetricDifferenceCount(it.resp[t], it.local_copy[t]) # 0
             THEN TestPanic(t)
             ELSE [it EXCEPT !.tpc[t] = "pop"]
    /\ UNCHANGED <<stressVars, signed, tr>>

\* for join_handle in threads { join_handle.join().unwrap() }
TestJoin ==
    /\ it.pc = "run"
    /\ \A t \in TestThreads : it.tpc[t] \in {"done", "panicked"}
    /\ it' = [it EXCEPT !.pc = IF \E t \in TestThreads : it.tpc[t] = "panicked"
                               THEN "panicked" ELSE "joined"]
    /\ UNCHANGED <<stressVars, signed, tr>>

TestNext ==
    \/ TestStart
    \/ \E t \in TestThreads :
          \/ TestPop(t) \/ TestLock(t) \/ TestNew(t) \/ TestInsert(t)
          \/ TestList(t) \/ TestDrop(t) \/ TestCompare(t)
    \/ TestJoin

SpecInsertTest == Init /\ [][TestNext]_vars

(***************************************************************************)
(* Scheduling: every thread that can take a step eventually takes one       *)
(***************************************************************************)
ManagerStep == Sample \/ Build \/ TrySend \/ CheckTerm \/ SendExit \/ Join \/ VerifyEnd

WorkerStep(w) ==
    /\ w \in Workers
    /\ \/ Recv(w) \/ AcquireWrite(w) \/ RequestList(w) \/ CompareRead(w)
       \/ DiscardRead(w) \/ RequestNew(w) \/ ExtendWrite(w) \/ FetchAdd(w)

VerifyStep == \E u \in Users : VerifyRequest(u) \/ VerifyCompare(u)

\* runs against a server that answers every request as it should
InitLive ==
    /\ Init
    /\ ~cfg.faulty /\ ~cfg.lossy
    /\ cfg.budget <= MaxJobsMulti

LiveSpec ==
    /\ InitLive
    /\ [][Next]_vars
    /\ WF_vars(ManagerStep)
    /\ WF_vars(WorkerStep(0))
    /\ WF_vars(WorkerStep(1))
    /\ WF_vars(VerifyStep)

(***************************************************************************)
(* Claims                                                                  *)
(***************************************************************************)
Max(a, b) == IF a >= b THEN a ELSE b

\* workers that hold (or are about to use) the write lock of user u for a request
Serving(u) ==
    {w \in Workers : wpc[w] \in {"reqR", "cmpR", "reqW", "procW"} /\ wjob[w].user = u}

\* workers that have a response of a request for user u in hand
InResponse(u) ==
    {w \in Workers : wpc[w] \in {"cmpR", "procW", "gotRO"} /\ wjob[w].user = u}

\* C1: in a non-read-only run against a server that stores exactly the ids of
\* the writes it accepted, the id set a Read job's list response carries equals
\* the user's inserted set when the worker compares them, and no worker ever
\* fails the read assertion.
C1_ReadCheckPasses ==
    ~cfg.lossy =>
        \A w \in Workers :
            /\ wcause[w] # "read_check"
            /\ wpc[w] = "cmpR" => wresp[w].wids = inserted[wjob[w].user]

\* C1 witness: a worker is comparing a list response after a write of that user
\* was completed.
C1_Witness ==
    \E w \in Workers :
        /\ ~cfg.read_only
        /\ wpc[w] = "cmpR"
        /\ inserted[wjob[w].user] # {}

\* C2 as stated: for every user, in every run, at most one worker is inside a
\* request for that user.
C2_Original ==
    \A u \in Users : Cardinality(InResponse(u)) <= 1

\* C2 amended: in a non-read-only run, for every user at most one worker is
\* between acquiring that user's lock for a request and finishing the
\* processing of the response.
C2_SerializedPerUser ==
    ~cfg.read_only =>
        \A u \in Users : Cardinality(Serving(u)) <= 1 /\ Cardinality(InResponse(u)) <= 1

\* C2 witness: one worker is inside a job of a user while another worker has
\* received a job for the same user and waits for the lock.
C2_Witness ==
    \E w1, w2 \in Workers :
        /\ w1 # w2
        /\ ~cfg.read_only
        /\ wpc[w1] \in {"cmpR", "procW"}
        /\ wpc[w2] \in {"lockR", "lockW"}
        /\ wjob[w1].user = wjob[w2].user

\* C3: no job is dropped.  Every job built before the newest one was accepted
\* by exactly one queue; the newest one is accepted exactly once as soon as
\* the Manager has left the dispatch loop; a job is executed at most once and
\* only by the worker whose queue accepted it; and when no worker failed and
\* all workers have terminated, every job was executed exactly once.
C3_NoJobDropped ==
    /\ \A id \in 1..Len(built) :
          /\ id < Len(built) => Len(accepted[id]) = 1
          /\ Len(accepted[id]) <= 1
          /\ (id = Len(built) /\ mpc \notin {"send", "panicked"}) => Len(accepted[id]) = 1
          /\ Len(executed[id]) <= 1
          /\ executed[id] # <<>> => executed[id] = accepted[id]
    /\ (\A w \in Workers : wpc[w] = "exited") =>
          \A id \in 1..Len(built) : Len(executed[id]) = 1 /\ executed[id] = accepted[id]

\* C3 witness: a run in which an enqueue attempt found a full queue, and in
\* which all workers have terminated after executing every job.
C3_Witness ==
    /\ next_thread > Len(built)
    /\ Len(built) > QueueCap
    /\ \A w \in Workers : wpc[w] = "exited"
    /\ \A id \in 1..Len(built) : Len(executed[id]) = 1

\* kinds of the jobs a worker has in its queue or in hand
KindsAt(w) == {queues[w][k].kind : k \in 1..Len(queues[w])} \cup {wjob[w].kind}

\* C4: in a read-only run no Write job is built, queued or executed, pos and
\* inserted keep their initial values and the verification pass never runs.
C4_ReadOnlyRun ==
    cfg.read_only =>
        /\ \A i \in 1..Len(built) : built[i].kind = "Read"
        /\ job.kind \in {"None", "Read"}
        /\ \A w \in Workers : KindsAt(w) \subseteq {"None", "Read", "Exit"}
        /\ \A u \in Users : pos[u] = 0 /\ inserted[u] = {} /\ vpc[u] = "idle"
        /\ n_pending_inserts = 0 /\ n_inserted = 0
        /\ mpc # "verify"
        /\ failed_verifications = {}

\* C4 witness: a read-only run that has ended after executing several jobs.
C4_Witness ==
    /\ cfg.read_only
    /\ mpc = "done"
    /\ Len(built) >= 2
    /\ \A id \in 1..Len(built) : Len(executed[id]) = 1

C6_PosMonotonic ==
    [][\A u \in Users : pos'[u] >= pos[u]]_vars

\* C6 witness: a user's pos was advanced by two Write jobs.
C6_Witness ==
    \E i, j \in 1..Len(built) :
        /\ i < j
        /\ built[i].kind = "Write" /\ built[j].kind = "Write"
        /\ built[i].user = built[j].user
        /\ built[i].n_new > 0 /\ built[j].n_new > 0

\* C7: a user's pos never exceeds the length of the user's template.
C7_PosWithinTemplate ==
    \A u \in Users : pos[u] <= Len(Workouts(u))

\* the Manager's step that builds a Write job
BuildsWrite == mpc = "build" /\ mpc' = "send" /\ job'.kind = "Write"

\* template indices below p whose fixed workout id is in the set ins
InsertedBelow(u, p, ins) == {i \in 0..(p - 1) : WorkoutIds(u)[i + 1] \in ins}

C9_WritePayload ==
    [][BuildsWrite =>
          LET u == job'.user
              p == pos[u]
              lo == Max(p - 10, 0)
              hi == Min(lo + 15, Len(Workouts(u)))
              fresh == {i \in lo..(hi - 1) : WorkoutIds(u)[i + 1] \notin inserted[u]}
          IN /\ Len(job'.workouts) = hi - lo
             /\ \A k \in 1..(hi - lo) :
                   /\ job'.workouts[k].user_id = UserId(u)
                   /\ job'.workouts[k].workout_id = WorkoutIds(u)[lo + k]
                   /\ job'.workouts[k].start_time = Workouts(u)[lo + k].start_time
             /\ job'.user_id = UserId(u)
             /\ pos'[u] = p + Cardinality(fresh)
             /\ n_pending_inserts' = n_pending_inserts + Cardinality(fresh)
             /\ \A v \in Users \ {u} : pos'[v] = pos[v]]_vars

\* C9 witness: a Write job built at a position past 10, whose window is cut
\* short by the end of the template, is being dispatched.
C9_Witness ==
    /\ mpc = "send"
    /\ job.kind = "Write"
    /\ built[Len(built)].p > 10
    /\ Len(job.workouts) < 15
    /\ built[Len(built)].n_new > 0

\* C10: every template index in [max(p-10,0), p) of a Write job built at p is
\* in the job and was contained in an earlier Write job of the same user.
C10_OverlapsEarlierWrites ==
    \A i \in 1..Len(built) :
        built[i].kind = "Write" =>
            \A t \in Max(built[i].p - 10, 0)..(built[i].p - 1) :
                /\ t \in built[i].idx
                /\ \E j \in 1..(i - 1) :
                      /\ built[j].kind = "Write"
                      /\ built[j].user = built[i].user
                      /\ t \in built[j].idx

\* the worker whose step this is goes from position a to position b
Moves(w, a, b) == wpc[w] = a /\ wpc'[w] = b

\* C11: a Write that succeeded makes the user's inserted set the union of the
\* set and the job's workout ids, and adds to the confirmed counter exactly the
\* number of the job's ids that were not in the set before; ids that were in
\* the set already change neither the set nor the counter.
C11_WriteRecorded ==
    [][\A w \in Workers :
        LET u == wjob[w].user
            fresh == JobWids(wjob[w]) \ inserted[u]
        IN /\ Moves(w, "procW", "addW") =>
                /\ inserted'[u] = inserted[u] \cup JobWids(wjob[w])
                /\ \A v \in Users \ {u} : inserted'[v] = inserted[v]
                /\ wdelta'[w] = Cardinality(fresh)
                /\ n_inserted' = n_inserted
                /\ (fresh = {} => inserted' = inserted)
           /\ Moves(w, "addW", "recv") =>
                /\ n_inserted' = n_inserted + wdelta[w]
                /\ inserted' = inserted
           /\ (wpc[w] = "addW" /\ wpc'[w] = "addW") => wdelta'[w] = wdelta[w]
      ]_vars

\* a Write of 15 workouts, 10 of them inserted before, has added 5 ids and is
\* about to count them
C11_Witness ==
    \E w \in Workers :
        /\ wpc[w] = "addW"
        /\ Len(wjob[w].workouts) = WindowSize
        /\ wdelta[w] = WindowSize - WindowBack
        /\ Cardinality(inserted[wjob[w].user]) = WindowSize + wdelta[w]

\* C12: when the server answers a Write with a status that is not accepted, or
\* the transport fails, the worker adds none of the job's ids to inserted,
\* leaves the confirmed counter as it is, and the job ends in failure: the
\* worker thread is dead for good.
C12_FailedWriteRecordsNothing ==
    [][\A w \in Workers :
        /\ (wpc[w] = "reqW" /\ wpc'[w] # "reqW") =>
              IF wresp'[w].ok
              THEN wpc'[w] = "procW"
              ELSE /\ wpc'[w] = "panicked"
                   /\ wcause'[w] = "api_request"
                   /\ inserted' = inserted
                   /\ n_inserted' = n_inserted
                   /\ executed' = executed
        /\ wpc[w] = "panicked" => wpc'[w] = "panicked" /\ inserted' = inserted
      ]_vars

\* a Write failed in api_request: none of its ids is in inserted, nothing was
\* counted, although the server may have stored the workouts
C12_Witness ==
    \E w \in Workers :
        /\ wpc[w] = "panicked" /\ wcause[w] = "api_request"
        /\ wjob[w].kind = "Write"
        /\ JobWids(wjob[w]) \cap inserted[wjob[w].user] = {}
        /\ n_inserted = 0
        /\ JobWids(wjob[w]) \subseteq server[wjob[w].user]

\* C13: the status api_request accepts depends on the endpoint: a list
\* response is a success only with status 200 and a new response only with
\* status 204, so a worker holds a body only of a response with the status
\* of its endpoint.
C13_StatusPerEndpoint ==
    \A w \in Workers :
        /\ wpc[w] = "procW" => wresp[w].status = 204
        /\ wpc[w] \in {"cmpR", "gotRO"} => wresp[w].status = 200

\* Exit jobs sent to worker w so far: those in its queue and the one it took
ExitsSent(w) ==
    Cardinality({k \in 1..Len(queues[w]) : queues[w][k].kind = "Exit"})
    + (IF wpc[w] = "exited" THEN 1 ELSE 0)

\* C14: cancellation is batch-granular and shutdown is ordered: every job of
\* the batch in which the flag was seen is enqueued before any Exit is sent,
\* each worker is sent exactly one Exit, in worker order, and the final
\* verification starts only after every worker thread has terminated.
C14_OrderedShutdown ==
    /\ \A w \in Workers : ExitsSent(w) <= 1
    /\ (\E w \in Workers : ExitsSent(w) > 0) =>
          /\ mpc \in {"exit", "join", "verify", "done", "panicked"}
          /\ bi = Len(batch) /\ job = NoJob
          /\ Cardinality({i \in 1..Len(built) : built[i].batch_no = batch_no}) = Len(batch)
          /\ \A i \in 1..Len(built) : Len(accepted[i]) = 1
    /\ mpc = "exit" => \A w \in Workers : ExitsSent(w) = IF w < exit_i THEN 1 ELSE 0
    /\ mpc \in {"join", "verify", "done"} => \A w \in Workers : ExitsSent(w) = 1
    /\ mpc = "verify" => ~cfg.read_only /\ \A w \in Workers : wpc[w] = "exited"

\* the flag was set between the two jobs of a batch, the second job was built
\* and enqueued all the same, and the verification has started
C14_Witness ==
    /\ mpc = "verify"
    /\ Len(built) >= 2
    /\ built[Len(built)].term /\ ~built[Len(built) - 1].term
    /\ built[Len(built)].batch_no = built[Len(built) - 1].batch_no
    /\ Len(accepted[Len(built)]) = 1

\* the final pass ends in this step
PassEnds == mpc = "verify" /\ mpc' \in {"done", "panicked"}

\* some checked user's returned id set differs from inserted
SomeSetDiffers ==
    \E u \in Users : pos[u] > 0 /\ vpc'[u] = "done" /\ vresp'[u] # inserted'[u]

\* the final pass makes one list request for every user with pos > 0 and none
\* for a user with pos = 0
OneRequestPerWrittenUser ==
    /\ (mpc = "join" /\ mpc' = "verify") =>
          \A u \in Users : vpc'[u] = IF pos[u] > 0 THEN "request" ELSE "skip"
    /\ mpc = "verify" => pos' = pos /\ inserted' = inserted
    /\ \A u \in Users :
          vpc'[u] # vpc[u] =>
              <<vpc[u], vpc'[u]>> \in {<<"idle", "request">>, <<"idle", "skip">>,
                                      <<"request", "compare">>, <<"request", "failed">>,
                                      <<"compare", "done">>}

\* C15 as stated: the final pass makes one list request per user with
\* pos > 0 and none for the others, and the process terminates abnormally if
\* and only if the returned id set of some checked user differs from inserted.
C15_Original ==
    [][/\ OneRequestPerWrittenUser
       /\ PassEnds => (mpc' = "panicked" <=> SomeSetDiffers)
      ]_vars

\* C15, amended: the final pass makes one list request per user with pos > 0
\* and none for the others; the process terminates abnormally if and only if
\* one of these requests fails (no body, or a body that is no list) or the
\* returned id set of some checked user differs from inserted, and otherwise,
\* every checked user compared, it exits cleanly.
C15_VerificationPass ==
    [][/\ OneRequestPerWrittenUser
       /\ PassEnds =>
            /\ mpc' = "panicked" <=> ((\E u \in Users : vpc'[u] = "failed") \/ SomeSetDiffers)
            /\ mpc' = "done" => \A u \in Users : vpc[u] = IF pos[u] > 0 THEN "done" ELSE "skip"
      ]_vars

\* the pass skipped a user without writes, checked another one, found its
\* returned set different from inserted, and the process panicked
C15_Witness ==
    /\ mpc = "panicked"
    /\ failed_verifications # {}
    /\ \E u, v \in Users : /\ vpc[u] = "skip" /\ pos[u] = 0
                           /\ vpc[v] = "done" /\ vresp[v] # inserted[v]

\* C16: the process never ends cleanly after a job failed, at whatever point
\* of the run, the sending of Exit and the joining included: it ends cleanly
\* only after the signal, with every job built executed to its end by a worker
\* that then took its Exit, and with a verification that found no difference.
C16_NoCleanEndAfterFailure ==
    mpc = "done" =>
        /\ term
        /\ \A w \in Workers : wpc[w] = "exited" /\ wcause[w] = "none"
        /\ \A i \in 1..Len(built) : Len(executed[i]) = 1
        /\ failed_verifications = {}
        /\ ~cfg.read_only =>
              \A u \in Users : /\ vpc[u] = IF pos[u] > 0 THEN "done" ELSE "skip"
                               /\ vpc[u] = "done" => vresp[u] = inserted[u]

\* a job failed in a worker after the Manager had sent every Exit, and the
\* join ended the process abnormally
C16_Witness ==
    /\ mpc = "panicked"
    /\ \A w \in Workers : ExitsSent(w) = 1 \/ wpc[w] = "panicked"
    /\ \E w \in Workers :
          /\ wpc[w] = "panicked"
          /\ \E k \in 1..Len(queues[w]) : queues[w][k].kind = "Exit"

C19_FailureStopsRun ==
    [][(\E w \in Workers : wpc[w] = "panicked") =>
          /\ \A v \in Workers :
                ~(wpc[v] = "recv" /\ wpc'[v] \in {"lockR", "lockW", "reqRO"})
          /\ accepted' = accepted
      ]_vars

\* C20: dispatch attempts follow the rotating index: attempt number k,
\* counted from 0 by next_thread, targets worker k mod n_threads; the index
\* advances by one with every attempt, whether the job was accepted or the
\* queue was full; a full queue keeps the job for the next worker in turn, so
\* the job is placed on the first worker in rotating order that has room.
C20_RotatingDispatch ==
    [][LET w == next_thread % cfg.n_threads
           attempt == mpc = "send" /\ (next_thread' # next_thread \/ job' # job
                                          \/ accepted' # accepted)
       IN /\ next_thread' \in {next_thread, next_thread + 1}
          /\ (next_thread' # next_thread \/ accepted' # accepted
                \/ \E v \in Workers : Len(queues'[v]) > Len(queues[v]) /\ mpc # "exit")
                => attempt
          /\ attempt =>
               /\ next_thread' = next_thread + 1
               /\ IF Len(queues[w]) < QueueCap
                  THEN /\ queues' = [queues EXCEPT ![w] = Append(@, job)]
                       /\ accepted' = [accepted EXCEPT ![job.id] = <<w>>]
                       /\ job' = NoJob
                  ELSE /\ queues' = queues /\ accepted' = accepted
                       /\ job' = job /\ mpc' = "send"
      ]_vars

\* with two workers, the queue of worker 0 was full when its turn came, the
\* index moved on, and the job was placed on worker 1
C20_Witness ==
    /\ cfg.n_threads = 2
    /\ Len(built) > 2 * QueueCap
    /\ job = NoJob
    /\ next_thread = Len(built) + 1
    /\ accepted[Len(built)] = <<1>>
    /\ Len(queues[0]) = QueueCap

\* C21: a Write job is built for a user only when the run is not read-only
\* and the user's pos is less than the template length at build time; every
\* Write job carries at least 1 and at most 15 workouts; once a user's pos has
\* reached the template length only Read jobs are built for that user.
C21_WriteOnlyWithinTemplate ==
    /\ \A i \in 1..Len(built) :
          built[i].kind = "Write" =>
              /\ ~cfg.read_only
              /\ built[i].p < Len(Workouts(built[i].user))
              /\ Cardinality(built[i].idx) \in 1..WindowSize
    /\ job # NoJob /\ job.kind = "Write" => Len(job.workouts) \in 1..WindowSize
    /\ \A w \in Workers :
          wjob[w] # NoJob /\ wjob[w].kind = "Write" => Len(wjob[w].workouts) \in 1..WindowSize

\* a user's pos had reached the template length, and the job built for the
\* user after that Write was a Read
C21_Witness ==
    \E i, k \in 1..Len(built) :
        /\ i < k
        /\ built[i].kind = "Write" /\ built[k].kind = "Read"
        /\ built[i].user = built[k].user
        /\ built[k].p >= Len(Workouts(built[k].user))
        /\ Cardinality(built[i].idx) < WindowSize

\* C22: state ownership is respected by every step: building a job never
\* changes any user's inserted set, executing a job never changes any user's
\* pos, executing a Read job changes neither inserted nor the confirmed
\* counter; only a successful Write changes inserted, and only for the user
\* the job addresses.
C22_Ownership ==
    [][/\ (mpc' # mpc \/ job' # job \/ built' # built) => inserted' = inserted
       /\ pos' # pos => mpc = "build" /\ mpc' = "send" /\ job'.kind = "Write"
       /\ (\E w \in Workers : wpc'[w] # wpc[w]) => pos' = pos
       /\ \A w \in Workers :
             (wpc'[w] # wpc[w] /\ wjob[w] # NoJob /\ wjob[w].kind = "Read")
                 => inserted' = inserted /\ n_inserted' = n_inserted
       /\ inserted' # inserted =>
             \E w \in Workers :
                 /\ Moves(w, "procW", "addW") /\ wjob[w].kind = "Write" /\ wresp[w].ok
                 /\ \A v \in Users \ {wjob[w].user} : inserted'[v] = inserted[v]
       /\ n_inserted' # n_inserted =>
             \E w \in Workers : Moves(w, "addW", "recv") /\ wjob[w].kind = "Write"
      ]_vars

\* with two users, a Write was built while the other user's set was filled
\* and a Read of that user was being executed
C22_Witness ==
    /\ cfg.n = 2
    /\ job # NoJob /\ job.kind = "Write"
    /\ \E w \in Workers :
          /\ wpc[w] = "cmpR"
          /\ wjob[w].user # job.user
          /\ inserted[wjob[w].user] # {}

\* a worker's Read job holds the write side of its user's lock from before the
\* list request until the comparison is finished
ReadHoldsWriteLock ==
    \A w \in Workers : wpc[w] \in {"reqR", "cmpR"} => lock[wjob[w].user] = w

\* C23 as stated: every read-and-validate, by a worker's Read job and by the
\* final verification pass alike, holds the write side of the user's lock from
\* before the list request is sent until the comparison is finished.
C23_Original ==
    /\ ReadHoldsWriteLock
    /\ \A u \in Users : vpc[u] \in {"request", "compare"} => lock[u] # NoWorker

\* C23, amended: a worker's Read job holds the write side of the user's lock
\* from before the list request until the comparison is finished; the final
\* verification pass sends its list request holding no lock and takes the
\* read side only for the comparison, at a time when every worker thread has
\* terminated and nobody holds the write side.
C23_ValidateUnderLock ==
    /\ ReadHoldsWriteLock
    /\ \A u \in Users :
          vpc[u] \in {"request", "compare"} =>
              /\ lock[u] = NoWorker
              /\ \A w \in Workers : wpc[w] = "exited"

\* a worker compares under the lock while the other worker waits for the lock
\* of the same user
C23_Witness ==
    \E w, v \in Workers :
        /\ w # v
        /\ wpc[w] = "cmpR" /\ lock[wjob[w].user] = w
        /\ wpc[v] \in {"lockR", "lockW"} /\ wjob[v].user = wjob[w].user

\* C24: in a read-only run a worker executing a Read job never acquires any
\* user's lock and never compares the response with the inserted set: a list
\* response with a status api_request accepts never causes a failure,
\* whatever ids it contains.
C24_ReadOnlyNoValidation ==
    /\ [](cfg.read_only =>
            /\ \A u \in Users : lock[u] = NoWorker /\ ~poisoned[u]
            /\ \A w \in Workers :
                  /\ wpc[w] \in {"recv", "reqRO", "gotRO", "exited", "panicked"}
                  /\ wcause[w] \in {"none", "api_request"})
    /\ [][cfg.read_only =>
            \A w \in Workers :
                (wpc[w] = "reqRO" /\ wpc'[w] # "reqRO") =>
                    IF wresp'[w].ok THEN wpc'[w] = "gotRO" ELSE wpc'[w] = "panicked"
         ]_vars

\* in a read-only run the server listed an id that is not in inserted, and the
\* worker went on to its next job
C24_Witness ==
    /\ cfg.read_only
    /\ \E w \in Workers :
          /\ wpc[w] = "gotRO"
          /\ wresp[w].wids # inserted[wjob[w].user]
          /\ \E i \in 1..Len(built) : executed[i] = <<w>>

\* C25: the transport never reports failure because of a would-block result:
\* on would-block during write or read it tries the same operation again on
\* the same connection; on the first I/O error of any other kind it reports
\* failure, without another try and without a second connection; each call
\* opens exactly one connection.
C25_WouldBlockRetried ==
    /\ [](/\ tr.conns <= 1
          /\ tr.pc \in {"write", "read", "some", "none"} => tr.conns = 1
          /\ tr.pc = "none" => tr.last # "WouldBlock")
    /\ [][/\ (tr' # tr /\ tr'.last = "WouldBlock") =>
                /\ tr'.pc = tr.pc /\ tr'.conns = tr.conns
                /\ tr'.written = tr.written /\ tr'.nread = tr.nread
          /\ (tr' # tr /\ tr'.last = "ConnectionReset") => tr'.pc = "none"
          /\ tr.pc \in {"some", "none"} => tr' = tr
         ]_vars

\* a call met as many would-block results as it may, wrote the whole request
\* on its one connection and returned a body
C25_Witness ==
    /\ tr.pc = "some"
    /\ tr.blocks = MaxBlocks
    /\ tr.written = tr.req_len
    /\ tr.conns = 1

\* C26: when the transport returns a body for an accepted response, that body
\* is the complete body the server sent, however the server's bytes are split
\* across successive reads.
C26_BodyComplete ==
    tr.pc = "some" => tr.body = tr.blen

\* C27: in the insert-workouts test every example workout is dealt to exactly
\* one thread and sent exactly once; the new request, the insertion into the
\* user's local set and the list request that follows all happen while the
\* thread holds that user's mutex; against a correct server neither the
\* assertion that the id was not yet in the set nor the comparison of the list
\* with the local copy fails, under any interleaving of the threads.
C27_InsertTestPasses ==
    it.pc # "start" =>
        /\ \A k \in 1..Len(it.workouts) :
              LET t == (k - 1) % it.n_threads
                  waiting == \E a \in 1..Len(it.thread_jobs[t]) :
                                 it.thread_jobs[t][a] = it.workouts[k]
              IN /\ \A v \in TestThreads \ {t} :
                        \A a \in 1..Len(it.thread_jobs[v]) :
                            it.thread_jobs[v][a] # it.workouts[k]
                 /\ it.sent[k] \in {<<>>, <<t>>}
                 /\ waiting => it.sent[k] = <<>>
                 /\ it.tpc[t] = "done" => it.sent[k] = <<t>>
        /\ \A t \in TestThreads :
              /\ it.tpc[t] \in {"new", "insert", "list", "drop"} =>
                    it.holder[it.cur[t].user] = t
              /\ it.tpc[t] = "insert" => it.cur[t].workout_id \notin it.uid_wid[it.cur[t].user]
              /\ it.tpc[t] = "compare" => it.resp[t] = it.local_copy[t]
              /\ it.tpc[t] # "panicked"
        /\ it.pc # "panicked"

\* two threads each sent a workout of the same user while the other was
\* running, and the test ended without a failure
C27_Witness ==
    /\ it.pc = "joined"
    /\ it.n_threads = 2
    /\ \E a, b \in 1..Len(it.workouts) :
          /\ it.workouts[a].user = it.workouts[b].user
          /\ it.sent[a] = <<0>> /\ it.sent[b] = <<1>>
          /\ {it.workouts[a].workout_id, it.workouts[b].workout_id}
                \subseteq it.srv[it.workouts[a].user]

\* a step of a thread of the stress test
ProgramStep == ManagerStep \/ (\E w \in Workers : WorkerStep(w)) \/ VerifyStep

\* the Manager has built as many jobs as the model lets it build
AtBudget ==
    mpc = "check" /\ ~term /\ Len(built) + Min(cfg.batch_size, cfg.n) > cfg.budget

\* C28: the stress test cannot deadlock: while the process is alive there is
\* no reachable state in which the Manager (spinning on a full queue, or
\* waiting for a user's lock) and all workers (waiting for a job or for a
\* user's lock) are blocked; a worker holds at most one user lock at a time,
\* never waits on its queue while holding one, and can always go on while it
\* holds one.
C28_NoDeadlock ==
    /\ \A w \in Workers :
          /\ Cardinality({u \in Users : lock[u] = w}) <= 1
          /\ wpc[w] \in {"recv", "lockR", "lockW", "addW", "exited", "panicked"} =>
                \A u \in Users : lock[u] # w
    /\ Running =>
          \A w \in Workers : (\E u \in Users : lock[u] = w) => ENABLED WorkerStep(w)
    /\ (Running /\ ~AtBudget) => ENABLED ProgramStep

\* the Manager finds the queue of the worker in turn full and has spun as long
\* as it may: only that worker can make room, and it can
C28_Witness ==
    /\ mpc = "send"
    /\ Len(queues[Target(next_thread)]) = QueueCap
    /\ next_thread - (Len(built) - 1) >= MaxSpin
    /\ ~ENABLED ManagerStep
    /\ ENABLED WorkerStep(Target(next_thread))

\* C29: at every moment every id in a user's inserted set is the fixed workout
\* id of a template index smaller than that user's pos, so the size of
\* inserted never exceeds pos, and the confirmed-insert counter never exceeds
\* the pending-insert counter.
C29_InsertedBelowPos ==
    /\ \A u \in Users :
          /\ inserted[u] \subseteq
                {WorkoutIds(u)[k] : k \in 1..Min(pos[u], Len(WorkoutIds(u)))}
          /\ Cardinality(inserted[u]) <= pos[u]
    /\ n_inserted <= n_pending_inserts

\* the first write of a user is inserted and counted while pos and the pending
\* counter already stand beyond it
C29_Witness ==
    /\ n_inserted = WindowSize
    /\ n_pending_inserts > n_inserted
    /\ \E u \in Users : Cardinality(inserted[u]) = WindowSize /\ pos[u] > WindowSize

\* the sum over the users 0..(n - 1) of the size of the inserted set
RECURSIVE SumInserted(_)
SumInserted(n) == IF n = 0 THEN 0 ELSE Cardinality(inserted[n - 1]) + SumInserted(n - 1)

\* C30: whenever no worker is inside a Write job the confirmed-insert counter
\* equals the sum over all users of the size of the inserted set; while Write
\* jobs are in progress the counter is never larger than that sum.
C30_CounterMatchesSets ==
    /\ n_inserted <= SumInserted(cfg.n)
    /\ (\A w \in Workers : wpc[w] \notin {"lockW", "reqW", "procW", "addW"})
          => n_inserted = SumInserted(cfg.n)

\* a second Write has extended the set and not yet counted its ids: the
\* counter stands at the first Write's count, below the size of the set
C30_Witness ==
    /\ \E w \in Workers : wpc[w] = "addW" /\ wdelta[w] > 0
    /\ n_inserted > 0
    /\ n_inserted < SumInserted(cfg.n)

\* template indices of all Write jobs built so far for user u
WrittenIdx(u) ==
    UNION {built[i].idx : i \in {k \in 1..Len(built) :
                                   built[k].kind = "Write" /\ built[k].user = u}}

\* C31: no template entry is ever skipped: for every user the union of the
\* index windows of all Write jobs built so far is a gap-free prefix [0, t) of
\* the template indices, also when pos was advanced while earlier writes of
\* the user were still queued or in flight.
C31_NoEntrySkipped ==
    \A u \in Users :
        \E t \in 0..Len(Workouts(u)) : WrittenIdx(u) = 0..(t - 1)

\* a third Write was built at pos 30 while nothing of the first two was
\* inserted yet, and the windows still cover the whole template
C31_Witness ==
    \E i \in 1..Len(built) :
        /\ built[i].kind = "Write" /\ built[i].p = 2 * WindowSize
        /\ inserted[built[i].user] = {}
        /\ WrittenIdx(built[i].user) = 0..(Len(Workouts(built[i].user)) - 1)

\* workout ids of all Write jobs built so far for user u
WrittenIds(u) == {WorkoutIds(u)[k + 1] : k \in WrittenIdx(u)}

\* the jobs worker w accepted and has either executed or holds
TakenBy(w) ==
    {i \in 1..Len(built) :
        accepted[i] = <<w>> /\ (executed[i] = <<w>> \/ (wjob[w].kind # "None" /\ wjob[w].id = i))}

\* C32: each worker executes its jobs in the order they were enqueued and Exit
\* is the last job it receives; so when all workers have been joined every
\* queue is empty and each user's inserted set is exactly the set of workout
\* ids of all Write jobs dispatched for that user, and this complete set is
\* what the final verification pass compares against.
C32_QueuesDrainInOrder ==
    /\ \A w \in Workers :
          \* the waiting jobs are in the order of their dispatch, Exit last
          /\ \A a, b \in 1..Len(queues[w]) :
                a < b => /\ queues[w][a].kind # "Exit"
                         /\ queues[w][b].kind # "Exit"
                               => queues[w][a].id < queues[w][b].id
          \* a job is taken only after every earlier job of the same worker
          \* was executed, and before every job that waits
          /\ \A k \in TakenBy(w) :
                /\ \A i \in 1..(k - 1) : accepted[i] = <<w>> => executed[i] = <<w>>
                /\ \A a \in 1..Len(queues[w]) :
                      queues[w][a].kind # "Exit" => k < queues[w][a].id
          \* nothing is left behind the Exit
          /\ wpc[w] = "exited" => queues[w] = <<>>
    /\ mpc \in {"verify", "done"} =>
          /\ \A w \in Workers : queues[w] = <<>> /\ wpc[w] = "exited"
          /\ \A i \in 1..Len(built) : executed[i] = accepted[i] /\ Len(accepted[i]) = 1
          /\ \A u \in Users : inserted[u] = WrittenIds(u)

\* the workers were joined and the pass is comparing: one worker ran two jobs
\* one after the other, and a user has two Write jobs' worth of ids recorded
C32_Witness ==
    /\ mpc = "verify"
    /\ \E w \in Workers : \E i, k \in 1..Len(built) : i < k /\ executed[i] = <<w>> /\ executed[k] = <<w>>
    /\ \E u \in Users :
          /\ vpc[u] = "compare" /\ inserted[u] = WrittenIds(u)
          /\ Cardinality({i \in 1..Len(built) : built[i].kind = "Write" /\ built[i].user = u}) >= 2

====
